---- MODULE Spec2Model ----
(***************************************************************************)
(* Model of iss_tracker.py: the process-wide ISS data store (r, all_data,  *)
(* state_vector_data), the Flask handlers that query it, and the handlers  *)
(* that delete and re-fetch it.                                            *)
(*                                                                         *)
(* Spec     : every handler runs to completion (one request at a time).    *)
(* SpecConc : one reader request and one writer request interleave, one    *)
(*            global read or write per step.                               *)
(***************************************************************************)
EXTENDS Integers, Sequences, FiniteSets, TLC

VARIABLES r, all_data, state_vector_data,  \* the module globals
          req, result,                     \* last request handled and its response
          locals,                          \* locals of the last closest-epoch scan
          installed,                       \* history: records given by the last Load, <<>> after a Clear
          rpc, rl,                         \* SpecConc: reader position and locals
          wpc                              \* SpecConc: writer position

vars == <<r, all_data, state_vector_data, req, result, locals, installed, rpc, rl, wpc>>

----------------------------------------------------------------------------
(* Bounds of the model *)

MaxLen == 2        \* longest record list the data source returns
MaxLimit == 3      \* largest integer given as limit or offset
MaxNow == 4        \* reference times tried: 11:58:00 + 2 min * (0..MaxNow)
MaxConcLen == 2    \* longest record list in SpecConc

MEAN_EARTH_RADIUS == 6371

----------------------------------------------------------------------------
(* Text: the characters of a string are a sequence of one-character strings *)

Digits == <<"0", "1", "2", "3", "4", "5", "6", "7", "8", "9">>

DigitVal(c) == (CHOOSE k \in 1..10 : Digits[k] = c) - 1

IsDigit(c) == \E k \in 1..10 : Digits[k] = c

RECURSIVE int(_)
\* Python int() of a digit string (the caller checks the characters are digits)
int(s) == IF s = <<>> THEN 0
          ELSE 10 * int(SubSeq(s, 1, Len(s) - 1)) + DigitVal(s[Len(s)])

AllDigits(s) == s # <<>> /\ \A k \in 1..Len(s) : IsDigit(s[k])

\* Python slice s[a:b] for 0 <= a <= b
Slice(s, a, b) == SubSeq(s, a + 1, IF b < Len(s) THEN b ELSE Len(s))

D2(n) == <<Digits[(n \div 10) + 1], Digits[(n % 10) + 1]>>
D3(n) == <<Digits[(n \div 100) + 1]>> \o D2(n % 100)

\* the characters of the feed's epoch "2023-DDDTHH:MM:SS.000Z"
EpochChars(doy, hh, mm, ss) ==
    <<"2", "0", "2", "3", "-">> \o D3(doy) \o <<"T">> \o D2(hh) \o <<":">>
    \o D2(mm) \o <<":">> \o D2(ss) \o <<".", "0", "0", "0", "Z">>

\* time.strptime(s, '%Y-%jT%H:%M:%S')
strptime(s) == [tm_year |-> int(Slice(s, 0, 4)), tm_yday |-> int(Slice(s, 5, 8)),
                tm_hour |-> int(Slice(s, 9, 11)), tm_min |-> int(Slice(s, 12, 14)),
                tm_sec |-> int(Slice(s, 15, 17))]

\* time.mktime: seconds since 1970 (years 1970..2099, no zone offset)
mktime(tm) ==
    LET days == 365 * (tm.tm_year - 1970) + ((tm.tm_year - 1969) \div 4) + (tm.tm_yday - 1)
    IN  ((days * 24 + tm.tm_hour) * 60 + tm.tm_min) * 60 + tm.tm_sec

E1200 == "2023-063T12:00:00.000Z"
E1204 == "2023-063T12:04:00.000Z"
E1208 == "2023-063T12:08:00.000Z"
E1212 == "2023-063T12:12:00.000Z"

\* the characters of the epoch strings in use
CharTable == [s \in {E1200, E1204, E1208, E1212} |->
                CASE s = E1200 -> EpochChars(63, 12, 0, 0)
                  [] s = E1204 -> EpochChars(63, 12, 4, 0)
                  [] s = E1208 -> EpochChars(63, 12, 8, 0)
                  [] s = E1212 -> EpochChars(63, 12, 12, 0)]

chars(s) == CharTable[s]

\* time.mktime(time.strptime(epoch[:-5], ...)) of lines 312 and 317
EpochTimeTable == [s \in DOMAIN CharTable |->
                     mktime(strptime(Slice(chars(s), 0, Len(chars(s)) - 5)))]

EpochTime(epoch) == EpochTimeTable[epoch]

\* int(epoch[9:11]) and int(epoch[12:14]) of lines 37-38
HrsTable == [s \in DOMAIN CharTable |-> int(Slice(chars(s), 9, 11))]
MinsTable == [s \in DOMAIN CharTable |-> int(Slice(chars(s), 12, 14))]

fabs(x) == IF x < 0 THEN -x ELSE x

\* float() of a '#text' value of the feed
FloatTable == [t \in {"7000.0", "-7000.0", "0.0", "3.0", "4.0", "5.0", "12.0"} |->
                 CASE t = "7000.0" -> 7000
                   [] t = "-7000.0" -> -7000
                   [] t = "0.0" -> 0
                   [] t = "3.0" -> 3
                   [] t = "4.0" -> 4
                   [] t = "5.0" -> 5
                   [] t = "12.0" -> 12]

float(t) == FloatTable[t]

RECURSIVE SqrtBetween(_, _, _)
\* the k in lo..hi with k*k <= n < (k+1)*(k+1), by bisection
SqrtBetween(n, lo, hi) ==
    IF lo = hi THEN lo
    ELSE LET mid == (lo + hi + 1) \div 2
         IN  IF mid * mid <= n THEN SqrtBetween(n, mid, hi) ELSE SqrtBetween(n, lo, mid - 1)

\* math.sqrt on the perfect squares the record pool produces
sqrt(n) == SqrtBetween(n, 0, 20000)

\* math.degrees(math.atan2(y, x)) on the eight principal directions and the origin
atan2deg(y, x) ==
    CASE y = 0 /\ x >= 0 -> 0
      [] y = 0 /\ x < 0 -> 180
      [] x = 0 /\ y > 0 -> 90
      [] x = 0 /\ y < 0 -> -90
      [] x > 0 /\ y = x -> 45
      [] x > 0 /\ y = -x -> -45
      [] x < 0 /\ y = -x -> 135
      [] x < 0 /\ y = x -> -135

RECURSIVE DigitsOf(_)
DigitsOf(n) == IF n < 10 THEN <<Digits[n + 1]>>
               ELSE DigitsOf(n \div 10) \o <<Digits[(n % 10) + 1]>>

\* str() of a non-negative float with an integral value: "5.0"
str(n) == DigitsOf(n) \o <<".", "0">>

----------------------------------------------------------------------------
(* The data source: records as xmltodict gives them *)

Quantity(text, units) == ("#text" :> text) @@ ("@units" :> units)

StateVector(epoch, x, y, z, xd, yd, zd) ==
    [EPOCH |-> epoch,
     X |-> Quantity(x, "km"), Y |-> Quantity(y, "km"), Z |-> Quantity(z, "km"),
     X_DOT |-> Quantity(xd, "km/s"), Y_DOT |-> Quantity(yd, "km/s"),
     Z_DOT |-> Quantity(zd, "km/s")]

Without(rec, key) == [k \in (DOMAIN rec) \ {key} |-> rec[k]]

P1 == StateVector(E1200, "7000.0", "0.0", "0.0", "3.0", "4.0", "0.0")
P2 == StateVector(E1204, "0.0", "7000.0", "0.0", "0.0", "0.0", "5.0")
\* same epoch as P1, other components
P3 == StateVector(E1200, "0.0", "0.0", "-7000.0", "0.0", "5.0", "12.0")
\* a record of the feed with no X element
P4 == Without(StateVector(E1208, "7000.0", "0.0", "0.0", "3.0", "4.0", "0.0"), "X")

RecordPool == {P1, P2, P3, P4}

SeqsUpTo(S, n) == UNION {[1..k -> S] : k \in 1..n}

\* what requests.get(...).content can hold: one or more stateVector elements
Datasets == SeqsUpTo(RecordPool, MaxLen)
ConcDatasets == SeqsUpTo({P1, P2}, MaxConcLen)

\* xmltodict.parse(r.content)
parse(content) ==
    [ndm |-> [oem |-> [header |-> [CREATION_DATE |-> "2023-063T00:00:00.000Z"],
                       body |-> [segment |-> [metadata |-> [OBJECT_NAME |-> "ISS"],
                                              data |-> [COMMENT |-> <<"Units are in kg and m^2">>,
                                                        stateVector |-> content]]]]]]

StateVectorOf(doc) == doc["ndm"]["oem"]["body"]["segment"]["data"]["stateVector"]

EmptyDict == <<>>

\* Python truthiness of a dict or list: "not d"
IsEmpty(d) == DOMAIN d = {}

\* epochs a client asks for: three of the pool and one no record has
QueryEpochs == {E1200, E1204, E1208, E1212}

\* a query-string argument: absent, an integer literal, or text int() rejects
NoArg == [kind |-> "none", val |-> 0]
IntArg(n) == [kind |-> "int", val |-> n]
BadArg == [kind |-> "bad", val |-> 0]
Args == {NoArg, BadArg} \cup {IntArg(n) : n \in -1..MaxLimit}

\* time.mktime(time.gmtime()) values tried
Nows == {mktime([tm_year |-> 2023, tm_yday |-> 63, tm_hour |-> 11, tm_min |-> 58, tm_sec |-> 0])
            + 120 * k : k \in 0..MaxNow}

\* what the geocoder's reverse() returns: None over water, else a location
GeoResults == {"None", "Location"}

----------------------------------------------------------------------------
(* Python values a handler returns: a str, a dict, a (str, status) tuple,  *)
(* or an exception that leaves the handler                                 *)

PyStr(text) == [kind |-> "str", body |-> text]
PyDict(d) == [kind |-> "dict", body |-> d]
PyTuple(text, status) == [kind |-> "tuple", body |-> [text |-> text, status |-> status]]
PyFormat(prefix, n, suffix) == [kind |-> "fstr", body |-> [prefix |-> prefix, n |-> n, suffix |-> suffix]]
Raise(exc) == [kind |-> "raise", body |-> exc]
NoResult == [kind |-> "none", body |-> ""]

DATA_DELETED == PyStr("Error: ISS Data has been deleted. Use route '/post-data' to restore data.\n")

\* int(request.args.get(name, default)) parses; False stands for ValueError
Parses(arg) == arg.kind # "bad"
IntOf(arg, default) == IF arg.kind = "none" THEN default ELSE arg.val

HasText(rec, key) == key \in DOMAIN rec /\ "#text" \in DOMAIN rec[key]

----------------------------------------------------------------------------
(* convert_j2k_to_geoposition *)

\* the conversion without the "+ 24" of line 41
geodata_of_NoShift(x, y, z, epoch) ==
    LET hrs == HrsTable[epoch]
        mins == MinsTable[epoch]
        lat == atan2deg(z, sqrt(x * x + y * y))
        lon == atan2deg(y, x) - ((hrs - 12) * 15 + (mins * 15) \div 60)
        alt == sqrt(x * x + y * y + z * z) - MEAN_EARTH_RADIUS
    IN  [latitude |-> lat, longitude |-> lon, altitude |-> [value |-> alt, units |-> "km"]]

geodata_of(x, y, z, epoch) ==
    LET hrs == HrsTable[epoch]
        mins == MinsTable[epoch]
        lat == atan2deg(z, sqrt(x * x + y * y))
        lon == atan2deg(y, x) - ((hrs - 12) * 15 + (mins * 15) \div 60) + 24
        alt == sqrt(x * x + y * y + z * z) - MEAN_EARTH_RADIUS
    IN  [latitude |-> lat, longitude |-> lon, altitude |-> [value |-> alt, units |-> "km"]]

convert_j2k_to_geoposition(state_vector_dict) ==
    IF state_vector_dict.kind # "dict"
       \/ ~({"X", "Y", "Z", "EPOCH"} \subseteq DOMAIN state_vector_dict.body)
    THEN PyStr("Invalid Epoch")
    ELSE LET d == state_vector_dict.body IN
         IF ~(AllDigits(Slice(chars(d.EPOCH), 9, 11)) /\ AllDigits(Slice(chars(d.EPOCH), 12, 14)))
         THEN Raise("ValueError")
         ELSE PyDict(geodata_of(d.X, d.Y, d.Z, d.EPOCH))

----------------------------------------------------------------------------
(* get_list_of_epochs *)

RECURSIVE EpochLoop_SkipsOneMore(_, _, _, _, _, _, _)
\* the loop with "offset_count <= offset": one item too many is skipped
EpochLoop_SkipsOneMore(data, k, offset, limit, offset_count, epoch_count, list_of_epochs) ==
    IF k > Len(data) THEN list_of_epochs
    ELSE IF offset_count <= offset
         THEN EpochLoop_SkipsOneMore(data, k + 1, offset, limit, offset_count + 1, epoch_count,
                                     list_of_epochs)
         ELSE IF epoch_count = limit THEN list_of_epochs
              ELSE EpochLoop_SkipsOneMore(data, k + 1, offset, limit, offset_count,
                                          epoch_count + 1,
                                          Append(list_of_epochs, data[k]["EPOCH"]))

RECURSIVE EpochLoop(_, _, _, _, _, _, _)
\* the for loop of lines 95-102, at item k
EpochLoop(data, k, offset, limit, offset_count, epoch_count, list_of_epochs) ==
    IF k > Len(data) THEN list_of_epochs
    ELSE IF offset_count < offset
         THEN EpochLoop(data, k + 1, offset, limit, offset_count + 1, epoch_count, list_of_epochs)
         ELSE IF epoch_count = limit THEN list_of_epochs
              ELSE EpochLoop(data, k + 1, offset, limit, offset_count, epoch_count + 1,
                             Append(list_of_epochs, data[k]["EPOCH"]))

\* lines 74-80: the limit, or the response that ends the request
LimitCheck(limitArg, len) ==
    IF ~Parses(limitArg)
    THEN PyTuple("Invalid limit parameter; limit must be an integer.\n", 400)
    ELSE IF IntOf(limitArg, len) < 0 THEN PyStr("Error: limit must be a positive integer.\n")
         ELSE NoResult

\* lines 83-88
OffsetCheck(offsetArg) ==
    IF ~Parses(offsetArg)
    THEN PyTuple("Invalid offset parameter; offset must be an integer.\n", 400)
    ELSE IF IntOf(offsetArg, 0) < 0 THEN PyStr("Error: offset must be a positive integer.\n")
         ELSE NoResult

\* line 90
OffsetTooLarge(len) ==
    PyFormat("Error: offset is equal to or greater than number of epochs (", len, ").\n")

\* the handler with "offset > len(state_vector_data)": offset == total is let through
get_list_of_epochs_OffByOne(ad, svd, limitArg, offsetArg) ==
    IF IsEmpty(ad) THEN DATA_DELETED
    ELSE IF LimitCheck(limitArg, Len(svd)).kind # "none" THEN LimitCheck(limitArg, Len(svd))
    ELSE IF OffsetCheck(offsetArg).kind # "none" THEN OffsetCheck(offsetArg)
    ELSE LET limit == IntOf(limitArg, Len(svd))
             offset == IntOf(offsetArg, 0)
         IN  IF offset > Len(svd) THEN OffsetTooLarge(Len(svd))
             ELSE PyDict([epochs |-> EpochLoop(svd, 1, offset, limit, 0, 0, <<>>)])

\* the handler, reading the globals once
get_list_of_epochs(ad, svd, limitArg, offsetArg) ==
    IF IsEmpty(ad) THEN DATA_DELETED
    ELSE IF LimitCheck(limitArg, Len(svd)).kind # "none" THEN LimitCheck(limitArg, Len(svd))
    ELSE IF OffsetCheck(offsetArg).kind # "none" THEN OffsetCheck(offsetArg)
    ELSE LET limit == IntOf(limitArg, Len(svd))
             offset == IntOf(offsetArg, 0)
         IN  IF offset >= Len(svd) THEN OffsetTooLarge(Len(svd))
             ELSE PyDict([epochs |-> EpochLoop(svd, 1, offset, limit, 0, 0, <<>>)])

----------------------------------------------------------------------------
(* get_state_vector, get_speed *)

RECURSIVE FirstWithEpoch(_, _, _)
\* index of the item the loop "for i in data: if i['EPOCH'] == epoch" stops at, 0 if none
FirstWithEpoch(data, k, epoch) ==
    IF k > Len(data) THEN 0
    ELSE IF data[k]["EPOCH"] = epoch THEN k
         ELSE FirstWithEpoch(data, k + 1, epoch)

\* the item read with .get(): a missing element is left out instead of raising
state_vector_of_Lenient(i, epoch) ==
    IF \E key \in {"X", "Y", "Z", "X_DOT", "Y_DOT", "Z_DOT"} : ~HasText(i, key)
    THEN PyDict([EPOCH |-> epoch])
    ELSE PyDict([EPOCH |-> epoch,
                 X |-> float(i["X"]["#text"]), Y |-> float(i["Y"]["#text"]),
                 Z |-> float(i["Z"]["#text"]), X_DOT |-> float(i["X_DOT"]["#text"]),
                 Y_DOT |-> float(i["Y_DOT"]["#text"]), Z_DOT |-> float(i["Z_DOT"]["#text"])])

\* lines 123-130 for the item found
state_vector_of(i, epoch) ==
    IF \E key \in {"X", "Y", "Z", "X_DOT", "Y_DOT", "Z_DOT"} : ~HasText(i, key)
    THEN Raise("KeyError")
    ELSE PyDict([EPOCH |-> epoch,
                 X |-> float(i["X"]["#text"]), Y |-> float(i["Y"]["#text"]),
                 Z |-> float(i["Z"]["#text"]), X_DOT |-> float(i["X_DOT"]["#text"]),
                 Y_DOT |-> float(i["Y_DOT"]["#text"]), Z_DOT |-> float(i["Z_DOT"]["#text"])])

get_state_vector(ad, svd, epoch) ==
    IF IsEmpty(ad) THEN DATA_DELETED
    ELSE LET k == FirstWithEpoch(svd, 1, epoch)
         IN  IF k = 0 THEN PyStr("Epoch not found.\n") ELSE state_vector_of(svd[k], epoch)

\* lines 149-153 for the item found
speed_of(i) ==
    IF \E key \in {"X_DOT", "Y_DOT", "Z_DOT"} : ~HasText(i, key)
    THEN Raise("KeyError")
    ELSE LET X_DOT == float(i["X_DOT"]["#text"])
             Y_DOT == float(i["Y_DOT"]["#text"])
             Z_DOT == float(i["Z_DOT"]["#text"])
         IN  PyDict([speed |-> [units |-> "km/s",
                                value |-> str(sqrt(X_DOT * X_DOT + Y_DOT * Y_DOT + Z_DOT * Z_DOT))]])

\* get_speed without the "if not all_data" test of lines 144-145
get_speed_Unguarded(ad, svd, epoch) ==
    LET k == FirstWithEpoch(svd, 1, epoch)
    IN  IF k = 0 THEN PyStr("Epoch not found. Speed cannot be calculated.\n")
        ELSE speed_of(svd[k])

get_speed(ad, svd, epoch) ==
    IF IsEmpty(ad) THEN DATA_DELETED
    ELSE LET k == FirstWithEpoch(svd, 1, epoch)
         IN  IF k = 0 THEN PyStr("Epoch not found. Speed cannot be calculated.\n")
             ELSE speed_of(svd[k])

----------------------------------------------------------------------------
(* get_location, get_location_now *)

INVALID_EPOCH == PyStr("Invalid Epoch.\nFor a list of valid epochs, please access '/epochs'.\n")

\* lines 285-289 / 341-345: geoloc.raw['address'], or the over-water entry when geoloc is None
geo_of(geoloc) ==
    IF geoloc = "None"
    THEN [geo |-> [Error |-> "ISS is over water, GeoPy cannot determine geopositional data"]]
    ELSE [country |-> "United States"]

\* lines 273-276 / 329-332
location_of(geodata) ==
    [latitiude |-> geodata.latitude, longitude |-> geodata.longitude,
     altitude |-> geodata.altitude]

get_location(ad, svd, epoch, geoloc) ==
    IF IsEmpty(ad) THEN DATA_DELETED
    ELSE LET state_vector == get_state_vector(ad, svd, epoch) IN
         IF state_vector.kind = "raise" THEN state_vector
         ELSE LET geodata == convert_j2k_to_geoposition(state_vector) IN
              IF geodata.kind = "raise" THEN geodata
              ELSE IF geodata.kind # "dict" THEN INVALID_EPOCH
              ELSE LET speed == get_speed(ad, svd, epoch) IN
                   IF speed.kind = "raise" THEN speed
                   ELSE IF speed.kind # "dict" THEN Raise("TypeError")
                   ELSE PyDict([EPOCH |-> epoch,
                                location |-> location_of(geodata.body),
                                geo |-> geo_of(geoloc),
                                speed |-> [units |-> speed.body.speed.units,
                                           value |-> speed.body.speed.value]])

\* locals of the scan before the loop, lines 312-314 (seconds_from_now is not bound yet)
ScanStart(data, time_now) ==
    [prev_diff |-> fabs(time_now - EpochTime(data[1]["EPOCH"])),
     closest_epoch |-> data[1]["EPOCH"],
     bound |-> FALSE, seconds_from_now |-> 0]

\* the iteration with "difference <= prev_diff": the last of equally near records wins
ScanStep_LastWins(l, i, time_now) ==
    LET time_epoch == EpochTime(i["EPOCH"])
        difference == fabs(time_now - time_epoch)
    IN  IF difference <= l.prev_diff
        THEN [prev_diff |-> difference, closest_epoch |-> i["EPOCH"],
              bound |-> TRUE, seconds_from_now |-> time_epoch - time_now]
        ELSE l

\* one iteration of the loop, lines 317-322
ScanStep(l, i, time_now) ==
    LET time_epoch == EpochTime(i["EPOCH"])
        difference == fabs(time_now - time_epoch)
    IN  IF difference < l.prev_diff
        THEN [prev_diff |-> difference, closest_epoch |-> i["EPOCH"],
              bound |-> TRUE, seconds_from_now |-> time_epoch - time_now]
        ELSE l

RECURSIVE ScanLoop(_, _, _, _)
ScanLoop(data, k, time_now, l) ==
    IF k > Len(data) THEN l
    ELSE ScanLoop(data, k + 1, time_now, ScanStep(l, data[k], time_now))

\* lines 311-322: the locals when the loop ends
ClosestEpochScan(data, time_now) == ScanLoop(data, 1, time_now, ScanStart(data, time_now))

NoLocals == [prev_diff |-> 0, closest_epoch |-> "", bound |-> FALSE, seconds_from_now |-> 0]

get_location_now(ad, svd, time_now, geoloc) ==
    IF IsEmpty(ad) THEN DATA_DELETED
    ELSE IF Len(svd) = 0 THEN Raise("KeyError")
    ELSE LET l == ClosestEpochScan(svd, time_now)
             state_vector == get_state_vector(ad, svd, l.closest_epoch)
         IN
         IF state_vector.kind = "raise" THEN state_vector
         ELSE LET geodata == convert_j2k_to_geoposition(state_vector) IN
              IF geodata.kind = "raise" THEN geodata
              ELSE IF geodata.kind # "dict" THEN INVALID_EPOCH
              ELSE LET speed == get_speed(ad, svd, l.closest_epoch) IN
                   IF speed.kind = "raise" THEN speed
                   ELSE IF ~l.bound THEN Raise("UnboundLocalError")
                   ELSE IF speed.kind # "dict" THEN Raise("TypeError")
                   ELSE PyDict([closest_epoch |-> l.closest_epoch,
                                seconds_from_now |-> l.seconds_from_now,
                                location |-> location_of(geodata.body),
                                geo |-> geo_of(geoloc),
                                speed |-> [units |-> speed.body.speed.units,
                                           value |-> speed.body.speed.value]])

----------------------------------------------------------------------------
(* Spec: one request at a time *)

Request(op, a, b) == [op |-> op, a |-> a, b |-> b]

QueryOps == {"get_list_of_epochs", "get_state_vector", "get_speed", "get_location",
             "get_location_now"}

\* locals of a reader request of SpecConc; snaps is history: the records (<<>> for a
\* Clear) the store held between writes at some instant of the request, and those of
\* a write that ran during it
ReaderIdle == [limit |-> 0, offset |-> 0, snaps |-> {}]

\* lines 13-15: the module fetches and parses the feed when it is loaded
Init ==
    /\ \E d \in Datasets :
          /\ r = d
          /\ all_data = parse(d)
          /\ state_vector_data = StateVectorOf(parse(d))
          /\ installed = d
    /\ req = Request("startup", NoArg, NoArg)
    /\ result = NoResult
    /\ locals = NoLocals
    /\ rpc = "idle"
    /\ rl = ReaderIdle
    /\ wpc = "idle"

\* what a query handler does to the globals: nothing
QueryFrame == UNCHANGED <<r, all_data, state_vector_data>>

\* the handler with "global state_vector_data" and the skipped items dropped from it
GetListOfEpochs_TrimsGlobal(limitArg, offsetArg) ==
    /\ req' = Request("get_list_of_epochs", limitArg, offsetArg)
    /\ result' = get_list_of_epochs(all_data, state_vector_data, limitArg, offsetArg)
    /\ locals' = NoLocals
    /\ state_vector_data' = IF result'.kind = "dict" /\ IntOf(offsetArg, 0) > 0
                            THEN SubSeq(state_vector_data, IntOf(offsetArg, 0) + 1,
                                        Len(state_vector_data))
                            ELSE state_vector_data
    /\ UNCHANGED <<r, all_data, installed, rpc, rl, wpc>>

GetListOfEpochs(limitArg, offsetArg) ==
    /\ req' = Request("get_list_of_epochs", limitArg, offsetArg)
    /\ result' = get_list_of_epochs(all_data, state_vector_data, limitArg, offsetArg)
    /\ locals' = NoLocals
    /\ QueryFrame
    /\ UNCHANGED <<installed, rpc, rl, wpc>>

GetStateVector(epoch) ==
    /\ req' = Request("get_state_vector", epoch, NoArg)
    /\ result' = get_state_vector(all_data, state_vector_data, epoch)
    /\ locals' = NoLocals
    /\ QueryFrame
    /\ UNCHANGED <<installed, rpc, rl, wpc>>

GetSpeed(epoch) ==
    /\ req' = Request("get_speed", epoch, NoArg)
    /\ result' = get_speed(all_data, state_vector_data, epoch)
    /\ locals' = NoLocals
    /\ QueryFrame
    /\ UNCHANGED <<installed, rpc, rl, wpc>>

GetLocation(epoch, geoloc) ==
    /\ req' = Request("get_location", epoch, geoloc)
    /\ result' = get_location(all_data, state_vector_data, epoch, geoloc)
    /\ locals' = NoLocals
    /\ QueryFrame
    /\ UNCHANGED <<installed, rpc, rl, wpc>>

GetLocationNow(time_now, geoloc) ==
    /\ req' = Request("get_location_now", time_now, geoloc)
    /\ result' = get_location_now(all_data, state_vector_data, time_now, geoloc)
    /\ locals' = IF IsEmpty(all_data) \/ Len(state_vector_data) = 0 THEN NoLocals
                 ELSE ClosestEpochScan(state_vector_data, time_now)
    /\ QueryFrame
    /\ UNCHANGED <<installed, rpc, rl, wpc>>

\* delete_all_data without "all_data" in its global statement: all_data stays bound
DeleteAllData_KeepsAllData ==
    /\ r' = EmptyDict
    /\ state_vector_data' = EmptyDict
    /\ installed' = <<>>
    /\ req' = Request("delete_all_data", NoArg, NoArg)
    /\ result' = PyStr("Successfully deleted all ISS Data\n")
    /\ locals' = NoLocals
    /\ UNCHANGED <<all_data, rpc, rl, wpc>>

\* delete_all_data, lines 192-196
DeleteAllData ==
    /\ r' = EmptyDict
    /\ all_data' = EmptyDict
    /\ state_vector_data' = EmptyDict
    /\ installed' = <<>>
    /\ req' = Request("delete_all_data", NoArg, NoArg)
    /\ result' = PyStr("Successfully deleted all ISS Data\n")
    /\ locals' = NoLocals
    /\ UNCHANGED <<rpc, rl, wpc>>

\* retrieve_data_again, lines 208-212, the feed returning d
RetrieveDataAgain(d) ==
    /\ r' = d
    /\ all_data' = parse(d)
    /\ state_vector_data' = StateVectorOf(parse(d))
    /\ installed' = d
    /\ req' = Request("retrieve_data_again", NoArg, NoArg)
    /\ result' = PyStr("Restored ISS Data\n")
    /\ locals' = NoLocals
    /\ UNCHANGED <<rpc, rl, wpc>>

Next ==
    \/ \E limitArg \in Args, offsetArg \in Args : GetListOfEpochs(limitArg, offsetArg)
    \/ \E epoch \in QueryEpochs : GetStateVector(epoch)
    \/ \E epoch \in QueryEpochs : GetSpeed(epoch)
    \/ \E epoch \in QueryEpochs, geoloc \in GeoResults : GetLocation(epoch, geoloc)
    \/ \E time_now \in Nows, geoloc \in GeoResults : GetLocationNow(time_now, geoloc)
    \/ DeleteAllData
    \/ \E d \in Datasets : RetrieveDataAgain(d)

Spec == Init /\ [][Next]_vars

----------------------------------------------------------------------------
(* SpecConc: the server handles requests in threads.  A reader request     *)
(* (get_list_of_epochs or get_state_vector) and a writer request           *)
(* (delete_all_data or retrieve_data_again) interleave; a step is one read *)
(* or one assignment of a module global.                                   *)

ConcArgs == {NoArg, IntArg(1)}
ConcEpochs == {E1200, E1212}

InitConc ==
    /\ \E d \in ConcDatasets :
          /\ r = d
          /\ all_data = parse(d)
          /\ state_vector_data = StateVectorOf(parse(d))
          /\ installed = d
    /\ req = Request("startup", NoArg, NoArg)
    /\ result = NoResult
    /\ locals = NoLocals
    /\ rpc = "idle"
    /\ rl = ReaderIdle
    /\ wpc = "idle"

ReaderFrame == UNCHANGED <<r, all_data, state_vector_data, locals, installed, wpc>>

\* history: the records the store holds once the write under way is done
Pending ==
    IF wpc \in {"D194", "D195"} THEN {<<>>}
    ELSE IF wpc \in {"P210", "P211"} THEN {r}
    ELSE {}

\* a request for /epochs arrives
ListBegin(limitArg, offsetArg) ==
    /\ rpc = "idle"
    /\ req' = Request("get_list_of_epochs", limitArg, offsetArg)
    /\ result' = NoResult
    /\ rl' = [limit |-> 0, offset |-> 0, snaps |-> {installed} \cup Pending]
    /\ rpc' = "L71"
    /\ ReaderFrame

\* line 71: if not all_data
List71 ==
    /\ rpc = "L71"
    /\ IF IsEmpty(all_data)
       THEN result' = DATA_DELETED /\ rpc' = "idle"
       ELSE result' = result /\ rpc' = "L76"
    /\ UNCHANGED <<req, rl>>
    /\ ReaderFrame

\* lines 76-88: len(state_vector_data) is read for the default limit (the value read
\* at line 74 is overwritten here before any use); then the offset is parsed
List76 ==
    /\ rpc = "L76"
    /\ LET len == Len(state_vector_data) IN
       IF LimitCheck(req.a, len).kind # "none"
       THEN result' = LimitCheck(req.a, len) /\ rpc' = "idle" /\ rl' = rl
       ELSE IF OffsetCheck(req.b).kind # "none"
            THEN result' = OffsetCheck(req.b) /\ rpc' = "idle" /\ rl' = rl
            ELSE /\ result' = result
                 /\ rpc' = "L89"
                 /\ rl' = [rl EXCEPT !.limit = IntOf(req.a, len), !.offset = IntOf(req.b, 0)]
    /\ UNCHANGED req
    /\ ReaderFrame

\* line 89: if offset >= len(state_vector_data)
List89 ==
    /\ rpc = "L89"
    /\ rpc' = IF rl.offset >= Len(state_vector_data) THEN "L90" ELSE "L95"
    /\ UNCHANGED <<req, result, rl>>
    /\ ReaderFrame

\* line 90: the message is built from len(state_vector_data), read again
List90 ==
    /\ rpc = "L90"
    /\ result' = OffsetTooLarge(Len(state_vector_data))
    /\ rpc' = "idle"
    /\ UNCHANGED <<req, rl>>
    /\ ReaderFrame

\* lines 95-105: the loop runs over the object state_vector_data names now
List95 ==
    /\ rpc = "L95"
    /\ result' = PyDict([epochs |-> EpochLoop(state_vector_data, 1, rl.offset, rl.limit,
                                              0, 0, <<>>)])
    /\ rpc' = "idle"
    /\ UNCHANGED <<req, rl>>
    /\ ReaderFrame

\* a request for /epochs/<epoch> arrives
StateVectorBegin(epoch) ==
    /\ rpc = "idle"
    /\ req' = Request("get_state_vector", epoch, NoArg)
    /\ result' = NoResult
    /\ rl' = [limit |-> 0, offset |-> 0, snaps |-> {installed} \cup Pending]
    /\ rpc' = "S118"
    /\ ReaderFrame

\* line 118: if not all_data
StateVector118 ==
    /\ rpc = "S118"
    /\ IF IsEmpty(all_data)
       THEN result' = DATA_DELETED /\ rpc' = "idle"
       ELSE result' = result /\ rpc' = "S121"
    /\ UNCHANGED <<req, rl>>
    /\ ReaderFrame

\* lines 121-131: the loop runs over the object state_vector_data names now
StateVector121 ==
    /\ rpc = "S121"
    /\ LET k == FirstWithEpoch(state_vector_data, 1, req.a) IN
       result' = IF k = 0 THEN PyStr("Epoch not found.\n")
                 ELSE state_vector_of(state_vector_data[k], req.a)
    /\ rpc' = "idle"
    /\ UNCHANGED <<req, rl>>
    /\ ReaderFrame

WriterFrame == UNCHANGED <<req, result, locals, rpc>>

\* history: a write that will leave these records begins; a reader in flight may
\* answer as if it ran after it
Begun(records) ==
    rl' = IF rpc = "idle" THEN rl ELSE [rl EXCEPT !.snaps = @ \cup {records}]

\* delete_all_data, line 193
Delete193 ==
    /\ wpc = "idle"
    /\ r' = EmptyDict
    /\ wpc' = "D194"
    /\ Begun(<<>>)
    /\ UNCHANGED <<all_data, state_vector_data, installed>>
    /\ WriterFrame

\* line 194
Delete194 ==
    /\ wpc = "D194"
    /\ all_data' = EmptyDict
    /\ wpc' = "D195"
    /\ UNCHANGED <<r, state_vector_data, installed, rl>>
    /\ WriterFrame

\* line 195
Delete195 ==
    /\ wpc = "D195"
    /\ state_vector_data' = EmptyDict
    /\ wpc' = "idle"
    /\ installed' = <<>>
    /\ UNCHANGED <<r, all_data, rl>>
    /\ WriterFrame

\* retrieve_data_again, line 209, the feed returning d
Retrieve209(d) ==
    /\ wpc = "idle"
    /\ r' = d
    /\ wpc' = "P210"
    /\ Begun(d)
    /\ UNCHANGED <<all_data, state_vector_data, installed>>
    /\ WriterFrame

\* line 210
Retrieve210 ==
    /\ wpc = "P210"
    /\ all_data' = parse(r)
    /\ wpc' = "P211"
    /\ UNCHANGED <<r, state_vector_data, installed, rl>>
    /\ WriterFrame

\* line 211
Retrieve211 ==
    /\ wpc = "P211"
    /\ state_vector_data' = StateVectorOf(all_data)
    /\ wpc' = "idle"
    /\ installed' = StateVectorOf(all_data)
    /\ UNCHANGED <<r, all_data, rl>>
    /\ WriterFrame

NextConc ==
    \/ \E limitArg \in ConcArgs, offsetArg \in ConcArgs : ListBegin(limitArg, offsetArg)
    \/ List71
    \/ List76
    \/ List89
    \/ List90
    \/ List95
    \/ \E epoch \in ConcEpochs : StateVectorBegin(epoch)
    \/ StateVector118
    \/ StateVector121
    \/ Delete193
    \/ Delete194
    \/ Delete195
    \/ \E d \in ConcDatasets : Retrieve209(d)
    \/ Retrieve210
    \/ Retrieve211

SpecConc == InitConc /\ [][NextConc]_vars

----------------------------------------------------------------------------
(* Properties of Spec.  They are stated over the request, its response and *)
(* `installed`, the records the last Load was given (<<>> after a Clear).  *)

Loaded == installed # <<>>
total == Len(installed)

Min(a, b) == IF a < b THEN a ELSE b

\* a limit or offset the handler accepts: absent or a non-negative integer
Accepted(arg) == arg.kind = "none" \/ (arg.kind = "int" /\ arg.val >= 0)

IsDataDeleted(res) ==
    res.kind = "str"
    /\ res.body = "Error: ISS Data has been deleted. Use route '/post-data' to restore data.\n"

\* position of the first installed record with this epoch, 0 if there is none
FirstIndexOf(epoch) ==
    IF \E i \in 1..total : installed[i]["EPOCH"] = epoch
    THEN CHOOSE i \in 1..total :
            /\ installed[i]["EPOCH"] = epoch
            /\ \A j \in 1..(i - 1) : installed[j]["EPOCH"] # epoch
    ELSE 0

WellFormed(rec) == \A key \in {"X", "Y", "Z", "X_DOT", "Y_DOT", "Z_DOT"} : HasText(rec, key)

\* C1: on a loaded store, for a limit >= 0 (or none, meaning total) and an offset
\* with 0 <= offset < total (or none, meaning 0), the epoch listing is exactly the
\* epochs at positions offset .. offset + min(limit, total - offset) - 1, in order.
C1_ListEpochsIsSlice ==
    (req.op = "get_list_of_epochs" /\ Loaded /\ Accepted(req.a) /\ Accepted(req.b)
        /\ IntOf(req.b, 0) < total)
    => LET limit == IntOf(req.a, total)
           offset == IntOf(req.b, 0)
           n == Min(limit, total - offset)
       IN  /\ result.kind = "dict"
           /\ Len(result.body.epochs) = n
           /\ result.body.epochs = [i \in 1..n |-> installed[offset + i]["EPOCH"]]

\* a listing that skips one record and is cut short by the end of the data
C1_Witness ==
    /\ req.op = "get_list_of_epochs" /\ total = 2
    /\ req.a = IntArg(3) /\ req.b = IntArg(1)
    /\ result.kind = "dict" /\ result.body.epochs = <<installed[2]["EPOCH"]>>

AbsDiff(i, now) == fabs(now - EpochTime(installed[i]["EPOCH"]))

\* C2: the closest-epoch scan selects a record whose distance to the reference
\* time is minimal, and among equally near records the first in stored order.
C2_NearestIsFirstMinimum ==
    (req.op = "get_location_now" /\ Loaded)
    => \E i \in 1..total :
          /\ locals.closest_epoch = installed[i]["EPOCH"]
          /\ \A j \in 1..total : AbsDiff(j, req.a) >= AbsDiff(i, req.a)
          /\ \A j \in 1..(i - 1) : AbsDiff(j, req.a) > AbsDiff(i, req.a)

\* two records equally near (12:04 first, then 12:00, now 12:02): the first is taken
C2_Witness ==
    /\ req.op = "get_location_now" /\ total = 2
    /\ installed[1]["EPOCH"] = E1204 /\ installed[2]["EPOCH"] = E1200
    /\ req.a = EpochTime(E1200) + 120
    /\ locals.closest_epoch = E1204

\* C3: the scan always ends with seconds_from_now bound to the selected record's
\* epoch time minus the reference time, and the request does not fail for want of it.
C3_SecondsFromNowDefined ==
    (req.op = "get_location_now" /\ Loaded)
    => /\ locals.bound
       /\ locals.seconds_from_now = EpochTime(locals.closest_epoch) - req.a
       /\ ~(result.kind = "raise" /\ result.body = "UnboundLocalError")

\* C5: a lookup by epoch answers from the last Load or Clear alone: after a Clear
\* it reports that the data is deleted; after a Load it returns the first record
\* with that epoch, with that record's own position and velocity.
C5_FindByEpochFollowsLastWrite ==
    req.op = "get_state_vector"
    => IF ~Loaded THEN IsDataDeleted(result)
       ELSE LET k == FirstIndexOf(req.a) IN
            (k # 0 /\ WellFormed(installed[k]))
            => /\ result.kind = "dict"
               /\ result.body.EPOCH = req.a
               /\ \A key \in {"X", "Y", "Z", "X_DOT", "Y_DOT", "Z_DOT"} :
                     result.body[key] = FloatTable[installed[k][key]["#text"]]

\* two records share the epoch asked for; the first one's components come back
C5_Witness ==
    /\ req.op = "get_state_vector" /\ req.a = E1200 /\ total = 2
    /\ installed[1] = P3 /\ installed[2] = P1
    /\ result.kind = "dict" /\ result.body.Z = -7000 /\ result.body.Y_DOT = 5

\* C6: with total > 0 records and an integer offset >= total the listing fails
\* and returns no epochs, with the offset-out-of-range message whenever the limit
\* is one the handler accepts; with no records loaded it reports that the data is
\* deleted, whatever limit and offset are given.
C6_ListEpochsBoundaryErrors ==
    req.op = "get_list_of_epochs"
    => /\ (Loaded /\ req.b.kind = "int" /\ req.b.val >= total)
          => /\ result.kind # "dict"
             /\ Accepted(req.a) => (result.kind = "fstr" /\ result.body.n = total)
       /\ ~Loaded => IsDataDeleted(result)

\* offset == total on a loaded store
C6_Witness ==
    /\ req.op = "get_list_of_epochs" /\ Loaded
    /\ req.a = NoArg /\ req.b = IntArg(total)
    /\ result.kind = "fstr"

\* C7: while the store is empty (the last write was a Clear) every query handler
\* answers with the data-deleted message: it neither raises nor returns records.
C7_EmptyStoreReportsNoData ==
    (~Loaded /\ req.op \in QueryOps) => IsDataDeleted(result)

C7_Witness ==
    ~Loaded /\ req.op = "get_location_now" /\ IsDataDeleted(result)

\* the record the claim C8 is about is the one the lookup finds
C8_Case ==
    /\ req.op = "get_location" /\ Loaded /\ req.a = E1200
    /\ FirstIndexOf(E1200) # 0
    /\ installed[FirstIndexOf(E1200)] = P1
    /\ HrsTable[E1200] = 12 /\ MinsTable[E1200] = 0

\* C8 as stated: position (7000, 0, 0) at 12:00 gives latitude 0, longitude 0 and
\* altitude 629.
C8_AsStated ==
    C8_Case => /\ result.kind = "dict"
               /\ result.body.location.latitiude = 0
               /\ result.body.location.longitude = 0
               /\ result.body.location.altitude.value = 629

\* C8 amended: position (7000, 0, 0) at 12:00 gives latitude 0, longitude 24 (the
\* formula's constant term) and altitude 7000 - 6371 = 629 km.
C8_Amended ==
    C8_Case => /\ result.kind = "dict"
               /\ result.body.location.latitiude = 0
               /\ result.body.location.longitude = 24
               /\ result.body.location.altitude.value = 7000 - 6371
               /\ result.body.location.altitude.units = "km"

C8_Witness == C8_Case /\ result.kind = "dict" /\ result.body.location.longitude = 24

\* C9: a query handler, whatever it answers, leaves r, all_data and
\* state_vector_data as they were.
C9_QueriesLeaveStore ==
    [][req'.op \in QueryOps => (r' = r /\ all_data' = all_data
                                 /\ state_vector_data' = state_vector_data)]_vars

\* a failed and a successful query have run on a loaded store that is still whole
C9_Witness ==
    /\ req.op = "get_location_now" /\ result.kind = "raise"
    /\ Loaded /\ state_vector_data = installed /\ StateVectorOf(all_data) = installed

----------------------------------------------------------------------------
(* Property of SpecConc *)

\* all_data as it is when the store holds these records and no write is under way
DocOf(records) == IF records = <<>> THEN EmptyDict ELSE parse(records)

\* the response of the request when it runs alone on a store holding these records
AloneOn(records) ==
    IF req.op = "get_list_of_epochs"
    THEN get_list_of_epochs(DocOf(records), records, req.a, req.b)
    ELSE get_state_vector(DocOf(records), records, req.a)

SameValue(a, b) == a.kind = b.kind /\ a.body = b.body

\* C4: a reader that runs while a Clear or a Load runs answers as it would have
\* alone on the store as it was before that write or as it is after it, never from
\* a mix of the two.
C4_ReaderSeesOneStore ==
    (rpc = "idle" /\ req.op \in {"get_list_of_epochs", "get_state_vector"})
    => \E records \in rl.snaps : SameValue(result, AloneOn(records))

====
